---- MODULE Spec2Model ----
(***************************************************************************)
(* Model of the PASU patient admission scheduler (src/pasu_solution.cpp):  *)
(* prep_data with compute_cost and the lower bound, the randomized         *)
(* constructor generate_ini_solution / arrange_patients, and the tail of   *)
(* main (search_neighborhood_s0, print_solution, calculate_cost).          *)
(***************************************************************************)
EXTENDS Integers, Sequences, FiniteSets, TLC

\* ---------------------------------------------------------------- bounds
MaxDays == 3
MaxRooms == 2
MaxCap == 2
NumFeatures == 2
NumSpecialisms == 1
MaxStay == 2
\* attempt budget of generate_ini_solution, scaled down from 10000
MaxAttempts == 3

\* ------------------------------------------------------ program constants
PREFERRED_PROPERTY_WEIGHT == 20
PREFERENCE_WEIGHT == 10
SPECIALISM_WEIGHT == 20
GENDER_WEIGHT == 50
\* unsigned MAX_CAPACITY; a global never assigned, hence zero-initialised
MAX_CAPACITY == 0
\* the "unassigned" marker of schedule and of Assignments::ra / rb
UNASSIGNED == 199
\* default upper age of department_age_limits: make_pair(0, 120)
DEFAULT_AGE_HI == 120
\* Assignments::cost as set by prep_data
INITIAL_COST == 1000000

\* enum Tag
UNREGISTERED == 0
REGISTERED == 1
ADMITTED == 2
DISCHARGED == 3

Features == 0 .. NumFeatures - 1
Specialisms == 0 .. NumSpecialisms - 1

VARIABLES
    file,                       \* the instance file read by prep_data
    pc,                         \* position of main
    num_rooms, num_patients, num_days,
    rooms, patients,
    room_property, dept_specialism_level, department_age_limits,
    patient_specialism_needed, patient_property_level,
    total_patient_room_cost, patient_room_availability, lower_bound,
    schedule, beds, beds_tempo, assignments, total_cost,
    n, da, t, p,                \* locals of generate_ini_solution / arrange_patients
    ret,                        \* value returned by generate_ini_solution
    outFile                     \* kinds of lines written to outFile / cerr

instanceVars == <<num_rooms, num_patients, num_days, rooms, patients,
                  room_property, dept_specialism_level, department_age_limits,
                  patient_specialism_needed, patient_property_level,
                  total_patient_room_cost, patient_room_availability, lower_bound>>

vars == <<file, pc, instanceVars, schedule, beds, beds_tempo, assignments,
          total_cost, n, da, t, p, ret, outFile>>

\* ------------------------------------------------------- prep_data helpers

\* unsigned arithmetic wraps; the width is 30 bits here instead of 32, so
\* that every sum of two values stays within the integers TLC handles
U32(x) == x % 1073741824

\* Gender of a patient line: "Fe" is FEMALE, anything else MALE.
ParseGender(gen) == IF gen = "Fe" THEN "FEMALE" ELSE "MALE"

\* Gender policy of a room line.
ParsePolicy(po) ==
    IF po = "Fe" THEN "FEMALE_ONLY"
    ELSE IF po = "Ma" THEN "MALE_ONLY"
    ELSE IF po = "SG" THEN "SAME_GENDER"
    ELSE "TOGETHER"

\* Preferred capacity token, <<"*", 0>> or <<"num", k>>: '*' stores
\* MAX_CAPACITY, otherwise the number read is stored.
ParsePreferredCap(tok) == IF tok[1] = "*" THEN MAX_CAPACITY ELSE tok[2]

\* valid_dday: the discharge day clipped to the horizon.
ValidDday(leave, nd) == IF leave >= nd THEN nd ELSE leave

\* max_ad: '*' gives num_days - (leave - entrance) in unsigned arithmetic,
\* a number is taken as written.
ParseMaxAday(tok, nd, leave, entrance) ==
    IF tok[1] = "*" THEN U32(nd - U32(leave - entrance)) ELSE tok[2]

\* Age limits of a department line, over the default pair (0, 120).
ParseAgeLimits(dep) ==
    IF dep.bound = ">=" THEN <<dep.age, DEFAULT_AGE_HI>>
    ELSE IF dep.bound = "<=" THEN <<0, dep.age>>
    ELSE <<0, DEFAULT_AGE_HI>>

\* Specialism level of a department: NONE by default, COMPLETE for the first
\* list, PARTIAL for the second list (read last, so it overrides).
ParseLevel(dep, s) ==
    IF s \in dep.partial THEN "PARTIAL"
    ELSE IF s \in dep.complete THEN "COMPLETE"
    ELSE "NONE"

\* Requirement level of a feature in a patient line.
ParseRequest(lev) ==
    IF lev = "absent" THEN "DONT_CARE"
    ELSE IF lev = "n" THEN "NEEDED"
    ELSE "PREFERRED"

\* ------------------------------------------------------------ compute_cost

\* Properties loop, availability part: cleared by a NEEDED feature the room lacks.
RECURSIVE PropertyAvailability(_, _, _, _)
PropertyAvailability(levels, props, pr, acc) ==
    IF pr >= NumFeatures THEN acc
    ELSE PropertyAvailability(levels, props, pr + 1,
            IF levels[pr] = "NEEDED" /\ ~props[pr] THEN FALSE ELSE acc)

\* Properties loop, cost part: one weight per PREFERRED feature the room lacks.
RECURSIVE PropertyCost(_, _, _, _)
PropertyCost(levels, props, pr, acc) ==
    IF pr >= NumFeatures THEN acc
    ELSE PropertyCost(levels, props, pr + 1,
            IF levels[pr] = "PREFERRED" /\ ~props[pr]
            THEN acc + PREFERRED_PROPERTY_WEIGHT ELSE acc)

PreferenceCost(preferred_cap, capacity) ==
    IF preferred_cap < capacity THEN PREFERENCE_WEIGHT ELSE 0

SpecialismCost(level) == IF level = "PARTIAL" THEN SPECIALISM_WEIGHT ELSE 0

SpecialismAvailability(level) == level # "NONE"

\* AgeAvailability that applies the upper bound even when it is 0.
AgeAvailability_ZeroUpperApplies(limits, age) ==
    /\ ~(limits[1] # 0 /\ age < limits[1])
    /\ ~(age > limits[2])

AgeAvailability(limits, age) ==
    /\ ~(limits[1] # 0 /\ age < limits[1])
    /\ ~(limits[2] # 0 /\ age > limits[2])

\* GenderCost that also charges a SAME_GENDER room.
GenderCost_SameGenderCharged(policy, gender) ==
    (IF policy = "MALE_ONLY" /\ gender = "FEMALE" THEN GENDER_WEIGHT ELSE 0)
    + (IF policy = "FEMALE_ONLY" /\ gender = "MALE" THEN GENDER_WEIGHT ELSE 0)
    + (IF policy = "SAME_GENDER" THEN GENDER_WEIGHT ELSE 0)

GenderCost(policy, gender) ==
    (IF policy = "MALE_ONLY" /\ gender = "FEMALE" THEN GENDER_WEIGHT ELSE 0)
    + (IF policy = "FEMALE_ONLY" /\ gender = "MALE" THEN GENDER_WEIGHT ELSE 0)

\* total_patient_room_cost[pp][r] after compute_cost, from the loaded tables.
ComputeCost(pats, rms, props, levels, deptlev, spneeded, pp, r) ==
    PropertyCost(levels[pp], props[r], 0, 0)
    + PreferenceCost(pats[pp].preferred_cap, rms[r].capacity)
    + SpecialismCost(deptlev[rms[r].department][spneeded[pp]])
    + GenderCost(rms[r].policy, pats[pp].gender)

\* patient_room_availability[pp][r] after compute_cost.
ComputeAvailability(pats, rms, props, levels, deptlev, limits, spneeded, pp, r) ==
    /\ PropertyAvailability(levels[pp], props[r], 0, TRUE)
    /\ SpecialismAvailability(deptlev[rms[r].department][spneeded[pp]])
    /\ AgeAvailability(limits[rms[r].department], pats[pp].age)

\* ------------------------------------------------------------- lower bound

\* patient_min_cost[pp]: scan of the rooms 0..nr-1, -1 while none is available.
RECURSIVE PatientMinCost(_, _, _, _, _)
PatientMinCost(cost, avail, nr, r, acc) ==
    IF r >= nr THEN acc
    ELSE PatientMinCost(cost, avail, nr, r + 1,
            IF avail[r] /\ (acc = -1 \/ cost[r] < acc) THEN cost[r] ELSE acc)

\* Number of days the lower bound charges a patient for.
LowerBoundDays(pat) == pat.dday - pat.aday

\* lower_bound after the loop over the patients 0..np-1.
RECURSIVE LowerBound(_, _, _, _, _, _, _)
LowerBound(cost, avail, pats, nr, np, pp, acc) ==
    IF pp >= np THEN acc
    ELSE LET m == PatientMinCost(cost[pp], avail[pp], nr, 0, -1)
         IN  LowerBound(cost, avail, pats, nr, np, pp + 1,
                IF m = -1 THEN acc ELSE acc + m * LowerBoundDays(pats[pp]))

\* Patients reported on cerr as infeasible.
InfeasiblePatients(cost, avail, nr, np) ==
    {pp \in 0 .. np - 1 : PatientMinCost(cost[pp], avail[pp], nr, 0, -1) = -1}

\* ------------------------------------------------------------ instance files

\* Patient timings of a horizon of nd days: registration on day 0 or on the
\* admission day, admission inside the horizon, discharge after admission, a
\* stay of at most MaxStay days that ends at most one day past the horizon.
Timings(nd) ==
    {tm \in [registration : 0 .. nd - 1, entrance : 0 .. nd - 1, leave : 1 .. nd + 1] :
        /\ tm.registration \in {0, tm.entrance}
        /\ tm.entrance < tm.leave
        /\ tm.leave <= tm.entrance + MaxStay}

\* One department without age bound, fully supporting specialism 0.
PlainDepartment == [bound |-> "none", age |-> 0, complete |-> {0}, partial |-> {}]

\* An instance of the constructor over a horizon of nd days: nr rooms in one
\* department, room 0 with cap0 beds and with feature 0 iff has0, the other
\* rooms with one bed and feature 0; patient 0 prefers feature 0, patient 1
\* needs it (lev1 = "n") or prefers it ("p"); both prefer capacity 1; the
\* max admission day of patient 0 is '*', that of patient 1 its admission day.
ConstructorFile(nd, nr, cap0, has0, tms, lev1) ==
    [num_days |-> nd, num_rooms |-> nr, num_patients |-> 2,
     departments |-> [d \in {0} |-> PlainDepartment],
     rooms |-> [r \in 0 .. nr - 1 |->
                   [capacity |-> IF r = 0 THEN cap0 ELSE 1,
                    department |-> 0, policy |-> "To",
                    features |-> IF r = 0 /\ ~has0 THEN {} ELSE {0}]],
     patients |-> [pp \in 0 .. 1 |->
                   [age |-> 30, gen |-> "Ma",
                    registration |-> tms[pp].registration,
                    entrance |-> tms[pp].entrance, leave |-> tms[pp].leave,
                    max_ad |-> IF pp = 0 THEN <<"*", 0>>
                               ELSE <<"num", tms[pp].entrance>>,
                    treatment |-> 0, preferred_cap |-> <<"num", 1>>,
                    features |-> [f \in Features |->
                                    IF f # 0 THEN "absent"
                                    ELSE IF pp = 0 THEN "p" ELSE lev1]]]]

\* An instance of the constructor with three patients that stay one day each
\* from the admission days adm, registered on admission: room 0 has cap0 beds
\* and lacks feature 0, the other rooms have one bed and feature 0; patients
\* 0 and 1 prefer feature 0, patient 2 needs it.
LedgerFile(nd, nr, cap0, adm) ==
    [num_days |-> nd, num_rooms |-> nr, num_patients |-> 3,
     departments |-> [d \in {0} |-> PlainDepartment],
     rooms |-> [r \in 0 .. nr - 1 |->
                   [capacity |-> IF r = 0 THEN cap0 ELSE 1,
                    department |-> 0, policy |-> "To",
                    features |-> IF r = 0 THEN {} ELSE {0}]],
     patients |-> [pp \in 0 .. 2 |->
                   [age |-> 30, gen |-> "Ma",
                    registration |-> adm[pp],
                    entrance |-> adm[pp], leave |-> adm[pp] + 1,
                    max_ad |-> <<"num", adm[pp]>>,
                    treatment |-> 0, preferred_cap |-> <<"num", 1>>,
                    features |-> [f \in Features |->
                                    IF f # 0 THEN "absent"
                                    ELSE IF pp = 2 THEN "n" ELSE "p"]]]]

\* Department lines of the evaluator instances: no bound, a lower or an upper
\* bound (0 included), and every pair of specialism lists.
EvaluatorDepartments ==
    {[bound |-> b[1], age |-> b[2], complete |-> c, partial |-> pa] :
        b \in {<<"none", 0>>, <<">=", 18>>, <<"<=", 65>>, <<">=", 0>>, <<"<=", 0>>},
        c \in SUBSET Specialisms, pa \in SUBSET Specialisms}

\* An instance of the evaluator: one patient and one room.
EvaluatorFile(dep, cap, po, fs, age, gen, sp, pcap, lev) ==
    [num_days |-> 2, num_rooms |-> 1, num_patients |-> 1,
     departments |-> [d \in {0} |-> dep],
     rooms |-> [r \in {0} |->
                   [capacity |-> cap, department |-> 0, policy |-> po,
                    features |-> fs]],
     patients |-> [pp \in {0} |->
                   [age |-> age, gen |-> gen, registration |-> 0,
                    entrance |-> 0, leave |-> 1, max_ad |-> <<"*", 0>>,
                    treatment |-> sp,
                    preferred_cap |-> pcap, features |-> lev]]]

\* --------------------------------------------------------------- prep_data

Rooms(f) == 0 .. f.num_rooms - 1
Patients(f) == 0 .. f.num_patients - 1
Days(f) == 0 .. f.num_days - 1

LoadRooms(f) ==
    [r \in Rooms(f) |->
        [capacity |-> f.rooms[r].capacity, department |-> f.rooms[r].department,
         policy |-> ParsePolicy(f.rooms[r].policy)]]

LoadRoomProperty(f) ==
    [r \in Rooms(f) |-> [pr \in Features |-> pr \in f.rooms[r].features]]

LoadPatients(f) ==
    [pp \in Patients(f) |->
        [age |-> f.patients[pp].age,
         gender |-> ParseGender(f.patients[pp].gen),
         rday |-> f.patients[pp].registration,
         aday |-> f.patients[pp].entrance,
         dday |-> f.patients[pp].leave,
         max_aday |-> ParseMaxAday(f.patients[pp].max_ad, f.num_days,
                                   f.patients[pp].leave, f.patients[pp].entrance),
         valid_dday |-> ValidDday(f.patients[pp].leave, f.num_days),
         preferred_cap |-> ParsePreferredCap(f.patients[pp].preferred_cap)]]

LoadPropertyLevel(f) ==
    [pp \in Patients(f) |->
        [pr \in Features |-> ParseRequest(f.patients[pp].features[pr])]]

LoadSpecialismNeeded(f) == [pp \in Patients(f) |-> f.patients[pp].treatment]

LoadSpecialismLevel(f) ==
    [d \in DOMAIN f.departments |->
        [s \in Specialisms |-> ParseLevel(f.departments[d], s)]]

LoadAgeLimits(f) ==
    [d \in DOMAIN f.departments |-> ParseAgeLimits(f.departments[d])]

LoadCost(f) ==
    [pp \in Patients(f) |-> [r \in Rooms(f) |->
        ComputeCost(LoadPatients(f), LoadRooms(f), LoadRoomProperty(f),
                    LoadPropertyLevel(f), LoadSpecialismLevel(f),
                    LoadSpecialismNeeded(f), pp, r)]]

LoadAvailability(f) ==
    [pp \in Patients(f) |-> [r \in Rooms(f) |->
        ComputeAvailability(LoadPatients(f), LoadRooms(f), LoadRoomProperty(f),
                            LoadPropertyLevel(f), LoadSpecialismLevel(f),
                            LoadAgeLimits(f), LoadSpecialismNeeded(f), pp, r)]]

LoadAssignments(f) ==
    [pp \in Patients(f) |->
        [aday |-> LoadPatients(f)[pp].aday, tday |-> 99,
         dday |-> LoadPatients(f)[pp].valid_dday,
         ra |-> UNASSIGNED, rb |-> UNASSIGNED, cost |-> INITIAL_COST]]

\* prep_data: read the instance, fill the tables, the ledger and the lower bound.
prep_data ==
    /\ pc = "load"
    /\ num_days' = file.num_days
    /\ num_rooms' = file.num_rooms
    /\ num_patients' = file.num_patients
    /\ schedule' = [pp \in Patients(file) |-> [i \in 0 .. file.num_days |-> UNASSIGNED]]
    /\ beds' = [r \in Rooms(file) |-> [d \in Days(file) |-> file.rooms[r].capacity]]
    /\ beds_tempo' = [r \in Rooms(file) |-> [d \in Days(file) |-> 0]]
    /\ rooms' = LoadRooms(file)
    /\ room_property' = LoadRoomProperty(file)
    /\ dept_specialism_level' = LoadSpecialismLevel(file)
    /\ department_age_limits' = LoadAgeLimits(file)
    /\ patients' = LoadPatients(file)
    /\ patient_specialism_needed' = LoadSpecialismNeeded(file)
    /\ patient_property_level' = LoadPropertyLevel(file)
    /\ assignments' = LoadAssignments(file)
    /\ total_patient_room_cost' = LoadCost(file)
    /\ patient_room_availability' = LoadAvailability(file)
    /\ lower_bound' = LowerBound(LoadCost(file), LoadAvailability(file),
                                 LoadPatients(file), file.num_rooms,
                                 file.num_patients, 0, lower_bound)
    /\ outFile' = IF InfeasiblePatients(LoadCost(file), LoadAvailability(file),
                                        file.num_rooms, file.num_patients) # {}
                  THEN outFile \cup {"Infeasible"} ELSE outFile
    /\ pc' = "generate"
    /\ UNCHANGED <<file, total_cost, n, da, t, p, ret>>

\* State before main runs: globals zero-initialised, vectors empty.
Unloaded ==
    /\ pc = "load"
    /\ num_rooms = 0 /\ num_patients = 0 /\ num_days = 0
    /\ rooms = <<>> /\ patients = <<>>
    /\ room_property = <<>> /\ dept_specialism_level = <<>>
    /\ department_age_limits = <<>>
    /\ patient_specialism_needed = <<>> /\ patient_property_level = <<>>
    /\ total_patient_room_cost = <<>> /\ patient_room_availability = <<>>
    /\ lower_bound = 0
    /\ schedule = <<>> /\ beds = <<>> /\ beds_tempo = <<>> /\ assignments = <<>>
    /\ total_cost = 0
    /\ n = 0 /\ da = 0 /\ t = 0 /\ p = 0
    /\ ret = -1
    /\ outFile = {}

\* ---------------------------------------------------------- the constructor

\* Days of the stay span [aday, valid_dday) of patient pp.
Span(pp) == patients[pp].aday .. patients[pp].valid_dday - 1

\* reset_schedule: the resize to the size the vector already has changes no
\* element; only the status tag schedule[pp][0] is rewritten.
reset_schedule(sch) ==
    [pp \in DOMAIN sch |-> [sch[pp] EXCEPT ![0] = UNREGISTERED]]

\* update_tempo_room_capacity: beds_tempo becomes a copy of beds.
update_tempo_room_capacity(b) == [r \in DOMAIN b |-> [d \in DOMAIN b[r] |-> b[r][d]]]

\* update_room_capacity: beds becomes a copy of beds_tempo.
update_room_capacity(bt) == [r \in DOMAIN bt |-> [d \in DOMAIN bt[r] |-> bt[r][d]]]

\* Status tag of patient pp after the first statement of the loop body of
\* arrange_patients(d).
NewTag(pp, d) ==
    IF d = patients[pp].aday THEN ADMITTED
    ELSE IF d = patients[pp].rday THEN REGISTERED
    ELSE IF d = patients[pp].valid_dday THEN DISCHARGED
    ELSE schedule[pp][0]

\* Condition under which arrange_patients(d) searches a room for patient pp.
NeedsRoom(pp, d) ==
    \/ NewTag(pp, d) = ADMITTED /\ d = patients[pp].aday
    \/ NewTag(pp, d) = REGISTERED /\ patients[pp].aday # patients[pp].rday

\* FreeOnSpan with the free-bed test made on the admission day only.
FreeOnSpan_FirstDayOnly(pp, room) == ~(beds_tempo[room][patients[pp].aday] < 1)

\* temp == valid_dday - aday: no day of the span has fewer than 1 free bed.
FreeOnSpan(pp, room) == \A i \in Span(pp) : ~(beds_tempo[room][i] < 1)

\* Fits without the test of patient_room_availability.
Fits_IgnoringAvailability(pp, room) == FreeOnSpan(pp, room)

\* Test of one candidate room in the while loop of arrange_patients.
Fits(pp, room) == FreeOnSpan(pp, room) /\ patient_room_availability[pp][room] = TRUE

\* Result of the while loop when no candidate fits.
NoRoom == -1

\* SearchRoom that gives up when the drawn room does not fit.
SearchRoom_DrawnRoomOnly(pp, ran, a) == IF Fits(pp, ran) THEN ran ELSE NoRoom

\* The while loop of arrange_patients from candidate ran with counter a: the
\* candidate is accepted if it fits, else the next one is --a while a > 0.
RECURSIVE SearchRoom(_, _, _)
SearchRoom(pp, ran, a) ==
    IF Fits(pp, ran) THEN ran
    ELSE IF a > 0 THEN SearchRoom(pp, a - 1, a - 1)
    ELSE NoRoom

\* Number of candidate rooms the while loop examines from candidate ran with
\* counter a, until it places the patient or returns false.
RECURSIVE Examined(_, _, _)
Examined(pp, ran, a) ==
    IF Fits(pp, ran) THEN 1
    ELSE IF a > 0 THEN 1 + Examined(pp, a - 1, a - 1)
    ELSE 1

\* schedule[pp] after the placement loop: the whole span is set to room.
PlaceInSchedule(row, pp, room, tag) ==
    [i \in DOMAIN row |->
        IF i = 0 THEN tag
        ELSE IF (i - 1) \in Span(pp) THEN room
        ELSE row[i]]

\* Decrement that takes the bed on the admission day only.
Decrement_FirstDayOnly(bt, pp, room) ==
    [bt EXCEPT ![room] =
        [d \in DOMAIN bt[room] |->
            IF d = patients[pp].aday THEN U32(bt[room][d] - 1) ELSE bt[room][d]]]

\* beds_tempo after the placement loop: one bed less on each day of the span.
Decrement(bt, pp, room) ==
    [bt EXCEPT ![room] =
        [d \in DOMAIN bt[room] |->
            IF d \in Span(pp) THEN U32(bt[room][d] - 1) ELSE bt[room][d]]]

\* Patients whose placement of the day is undone after arrange_patients.
Tentative(pp) ==
    schedule[pp][0] = REGISTERED /\ patients[pp].aday # patients[pp].rday

\* Increment that gives no bed back.
Increment_NothingUndone(bt) == bt

\* beds_tempo after the loop that follows a successful arrange_patients: one
\* bed more for every assigned day of every tentative patient.
Increment(bt) ==
    [r \in DOMAIN bt |-> [d \in DOMAIN bt[r] |->
        U32(bt[r][d] + Cardinality({pp \in DOMAIN schedule :
                /\ Tentative(pp)
                /\ d \in Span(pp)
                /\ schedule[pp][d + 1] # UNASSIGNED
                /\ schedule[pp][d + 1] = r}))]]

\* Value assigned to da by the condition (da = num_days - 1 && t == 1).
SuccessTest(nd, tt) == IF (nd - 1 # 0) /\ tt = 1 THEN 1 ELSE 0

\* generate_ini_solution, head of the loop over n: a new attempt starts.
StartAttempt ==
    /\ pc = "generate"
    /\ n < MaxAttempts
    /\ t' = 1
    /\ schedule' = reset_schedule(schedule)
    /\ da' = 0
    /\ pc' = "day"
    /\ UNCHANGED <<file, instanceVars, beds, beds_tempo, assignments,
                   total_cost, n, p, ret, outFile>>

\* generate_ini_solution, loop over n exhausted: n is returned.
ReturnExhausted ==
    /\ pc = "generate"
    /\ ~(n < MaxAttempts)
    /\ ret' = n
    /\ pc' = "search"
    /\ UNCHANGED <<file, instanceVars, schedule, beds, beds_tempo, assignments,
                   total_cost, n, da, t, p, outFile>>

\* Head of the loop over da: update_tempo_room_capacity, arrange_patients(da) entered.
StartDay ==
    /\ pc = "day"
    /\ da < num_days /\ t = 1
    /\ beds_tempo' = update_tempo_room_capacity(beds)
    /\ p' = 0
    /\ pc' = "arrange"
    /\ UNCHANGED <<file, instanceVars, schedule, beds, assignments,
                   total_cost, n, da, t, ret, outFile>>

\* The loop over da ends.
EndDays ==
    /\ pc = "day"
    /\ ~(da < num_days /\ t = 1)
    /\ pc' = "check"
    /\ UNCHANGED <<file, instanceVars, schedule, beds, beds_tempo, assignments,
                   total_cost, n, da, t, p, ret, outFile>>

\* arrange_patients, a patient without admission or registration event.
ArrangeSkip ==
    /\ pc = "arrange"
    /\ p < num_patients
    /\ ~NeedsRoom(p, da)
    /\ schedule' = [schedule EXCEPT ![p][0] = NewTag(p, da)]
    /\ p' = p + 1
    /\ UNCHANGED <<file, pc, instanceVars, beds, beds_tempo, assignments,
                   total_cost, n, da, t, ret, outFile>>

\* arrange_patients, a patient placed in the room the while loop ends on.
ArrangePlace ==
    /\ pc = "arrange"
    /\ p < num_patients
    /\ NeedsRoom(p, da)
    /\ \E ran \in 0 .. num_rooms - 1 :
        LET room == SearchRoom(p, ran, num_rooms) IN
        /\ room # NoRoom
        /\ schedule' = [schedule EXCEPT
                            ![p] = PlaceInSchedule(schedule[p], p, room, NewTag(p, da))]
        /\ beds_tempo' = Decrement(beds_tempo, p, room)
    /\ p' = p + 1
    /\ UNCHANGED <<file, pc, instanceVars, beds, assignments,
                   total_cost, n, da, t, ret, outFile>>

\* ArrangeFail whose caller starts the same day again instead of giving the
\* attempt up.
ArrangeFail_RetriesDay ==
    /\ pc = "arrange"
    /\ p < num_patients
    /\ NeedsRoom(p, da)
    /\ \E ran \in 0 .. num_rooms - 1 : SearchRoom(p, ran, num_rooms) = NoRoom
    /\ schedule' = [schedule EXCEPT ![p][0] = NewTag(p, da)]
    /\ outFile' = outFile \cup {"Failed"}
    /\ pc' = "day"
    /\ UNCHANGED <<file, instanceVars, beds, beds_tempo, assignments,
                   total_cost, n, da, t, p, ret>>

\* arrange_patients returns false: no candidate fits; the caller sets t = 0
\* and the loop over da advances.
ArrangeFail ==
    /\ pc = "arrange"
    /\ p < num_patients
    /\ NeedsRoom(p, da)
    /\ \E ran \in 0 .. num_rooms - 1 : SearchRoom(p, ran, num_rooms) = NoRoom
    /\ schedule' = [schedule EXCEPT ![p][0] = NewTag(p, da)]
    /\ outFile' = outFile \cup {"Failed"}
    /\ t' = 0
    /\ da' = da + 1
    /\ pc' = "day"
    /\ UNCHANGED <<file, instanceVars, beds, beds_tempo, assignments,
                   total_cost, n, p, ret>>

\* arrange_patients returns true: tentative placements are undone in
\* beds_tempo, update_room_capacity commits it, the loop over da advances.
CommitDay ==
    /\ pc = "arrange"
    /\ ~(p < num_patients)
    /\ beds_tempo' = Increment(beds_tempo)
    /\ beds' = update_room_capacity(Increment(beds_tempo))
    /\ da' = da + 1
    /\ pc' = "day"
    /\ UNCHANGED <<file, instanceVars, schedule, assignments,
                   total_cost, n, t, p, ret, outFile>>

\* if (da = num_days - 1 && t == 1) taken: break, n is returned.
ReturnSuccess ==
    /\ pc = "check"
    /\ SuccessTest(num_days, t) # 0
    /\ da' = SuccessTest(num_days, t)
    /\ outFile' = outFile \cup {"success"}
    /\ ret' = n
    /\ pc' = "search"
    /\ UNCHANGED <<file, instanceVars, schedule, beds, beds_tempo, assignments,
                   total_cost, n, t, p>>

\* if (da = num_days - 1 && t == 1) not taken: n++.
NextAttempt ==
    /\ pc = "check"
    /\ SuccessTest(num_days, t) = 0
    /\ da' = SuccessTest(num_days, t)
    /\ n' = n + 1
    /\ pc' = "generate"
    /\ UNCHANGED <<file, instanceVars, schedule, beds, beds_tempo, assignments,
                   total_cost, t, p, ret, outFile>>

\* ------------------------------------------------------------- rest of main

\* search_neighborhood_s0: reads patients and beds, changes no global.
search_neighborhood_s0 ==
    /\ pc = "search"
    /\ pc' = "print"
    /\ UNCHANGED <<file, instanceVars, schedule, beds, beds_tempo, assignments,
                   total_cost, n, da, t, p, ret, outFile>>

\* print_solution: one line per patient with its schedule.
print_solution ==
    /\ pc = "print"
    /\ outFile' = outFile \cup {"schedule"}
    /\ pc' = "cost"
    /\ UNCHANGED <<file, instanceVars, schedule, beds, beds_tempo, assignments,
                   total_cost, n, da, t, p, ret>>

\* Values a read past the end of a row of total_patient_room_cost may yield.
GarbageCosts == {0, 1073741823}

RECURSIVE SumCosts(_, _, _)
SumCosts(asg, pp, acc) ==
    IF pp >= num_patients THEN acc
    ELSE SumCosts(asg, pp + 1, U32(acc + asg[pp].cost))

\* assignments[pp] after calculate_cost; g is what the read yields when ra
\* is not a room.
CostedAssignment(pp, g) ==
    LET ra == schedule[pp][patients[pp].aday + 1] IN
    [assignments[pp] EXCEPT
        !.ra = ra,
        !.cost = IF ra \in DOMAIN total_patient_room_cost[pp]
                 THEN total_patient_room_cost[pp][ra] ELSE g]

\* calculate_cost: ra and cost of every assignment, accumulated in total_cost.
calculate_cost ==
    /\ pc = "cost"
    /\ \E g \in [DOMAIN assignments -> GarbageCosts] :
        /\ assignments' = [pp \in DOMAIN assignments |-> CostedAssignment(pp, g[pp])]
        /\ total_cost' = SumCosts([pp \in DOMAIN assignments |->
                                        CostedAssignment(pp, g[pp])], 0, total_cost)
    /\ pc' = "total"
    /\ UNCHANGED <<file, instanceVars, schedule, beds, beds_tempo,
                   n, da, t, p, ret, outFile>>

\* calculate_cost called a second time, straight after the first call and
\* with the schedule untouched in between.
calculate_cost_again ==
    /\ pc = "total"
    /\ \E g \in [DOMAIN assignments -> GarbageCosts] :
        /\ assignments' = [pp \in DOMAIN assignments |-> CostedAssignment(pp, g[pp])]
        /\ total_cost' = SumCosts([pp \in DOMAIN assignments |->
                                        CostedAssignment(pp, g[pp])], 0, total_cost)
    /\ pc' = "again"
    /\ UNCHANGED <<file, instanceVars, schedule, beds, beds_tempo,
                   n, da, t, p, ret, outFile>>

\* main: "Total Cost = " line, return 0.
write_total ==
    /\ pc = "total"
    /\ outFile' = outFile \cup {"Total Cost"}
    /\ pc' = "done"
    /\ UNCHANGED <<file, instanceVars, schedule, beds, beds_tempo, assignments,
                   total_cost, n, da, t, p, ret>>

\* ---------------------------------------------------------- specifications

\* Every constructor instance within the bounds, before main runs.
Init ==
    /\ \E nd \in 1 .. MaxDays, nr \in 1 .. MaxRooms, cap0 \in 1 .. MaxCap,
          has0 \in BOOLEAN :
         \E tms \in [0 .. 1 -> Timings(nd)],
            lev1 \in IF has0 THEN {"p"} ELSE {"n", "p"} :
            file = ConstructorFile(nd, nr, cap0, has0, tms, lev1)
    /\ Unloaded

Next ==
    \/ prep_data
    \/ StartAttempt
    \/ ReturnExhausted
    \/ StartDay
    \/ EndDays
    \/ ArrangeSkip
    \/ ArrangePlace
    \/ ArrangeFail
    \/ CommitDay
    \/ ReturnSuccess
    \/ NextAttempt
    \/ search_neighborhood_s0
    \/ print_solution
    \/ calculate_cost
    \/ write_total

Spec == Init /\ [][Next]_vars

\* Evaluator instances that vary the features, the specialism and the
\* capacities, for a male patient of 70 in a TOGETHER room.
InitFeatures ==
    \E dep \in {d \in EvaluatorDepartments : d.bound = "none"}, cap \in 1 .. 2,
       fs \in SUBSET Features, sp \in Specialisms,
       pcap \in {<<"*", 0>>, <<"num", 1>>, <<"num", 2>>},
       lev \in [Features -> {"n", "p", "absent"}] :
        file = EvaluatorFile(dep, cap, "To", fs, 70, "Ma", sp, pcap, lev)

\* Evaluator instances that vary age, age bound, gender, gender policy,
\* specialism and capacities, for a patient without feature request.
InitPerson ==
    \E dep \in EvaluatorDepartments, cap \in 1 .. 2,
       po \in {"Fe", "Ma", "SG", "To"}, age \in {10, 70, 121},
       gen \in {"Fe", "Ma"}, sp \in Specialisms,
       pcap \in {<<"*", 0>>, <<"num", 1>>, <<"num", 2>>} :
        file = EvaluatorFile(dep, cap, po, {}, age, gen, sp, pcap,
                             [f \in Features |-> "absent"])

\* The evaluator instances, before main runs.
InitLoad == (InitFeatures \/ InitPerson) /\ Unloaded

NextLoad == prep_data

SpecLoad == InitLoad /\ [][NextLoad]_vars

\* main with a second call of calculate_cost after the first one.
NextCost == Next \/ calculate_cost_again

SpecCost == Init /\ [][NextCost]_vars

\* The constructor instances in which room 0 lacks feature 0 and patient 1
\* needs it, before main runs.
InitFair ==
    /\ \E nd \in 1 .. MaxDays, nr \in 1 .. MaxRooms, cap0 \in 1 .. MaxCap :
         \E tms \in [0 .. 1 -> Timings(nd)] :
            file = ConstructorFile(nd, nr, cap0, FALSE, tms, "n")
    /\ Unloaded

\* Every three-patient instance within the bounds, before main runs.
InitLedger ==
    /\ \E nd \in 1 .. MaxDays, nr \in 1 .. MaxRooms, cap0 \in 1 .. MaxCap :
         \E adm \in [0 .. 2 -> 0 .. nd - 1] :
            file = LedgerFile(nd, nr, cap0, adm)
    /\ Unloaded

SpecLedger == InitLedger /\ [][Next]_vars

\* main scheduled fairly: a step that can be taken is eventually taken.
SpecFair == InitFair /\ [][Next]_vars /\ WF_vars(Next)

TypeOK == pc \in {"load", "generate", "day", "arrange", "check", "search",
                  "print", "cost", "total", "again", "done"}

\* ------------------------------------------------------------------ claims

Loaded == pc # "load"

\* generate_ini_solution has returned the index of an attempt it recognised
\* as successful.
Succeeded == ret # -1 /\ ret < MaxAttempts

\* generate_ini_solution has returned with its budget exhausted.
Exhausted == ret # -1 /\ ~(ret < MaxAttempts)

AllRooms == 0 .. num_rooms - 1
AllPatients == 0 .. num_patients - 1
AllDays == 0 .. num_days - 1

\* C1: after load, during and after every construction attempt, every entry
\* of beds and of beds_tempo lies between 0 and the capacity of its room (a
\* decrement of a zero entry or an increment of a full one would leave it).
C1_LedgerWithinCapacity ==
    Loaded =>
        \A r \in AllRooms : \A d \in AllDays :
            /\ 0 <= beds[r][d] /\ beds[r][d] <= rooms[r].capacity
            /\ 0 <= beds_tempo[r][d] /\ beds_tempo[r][d] <= rooms[r].capacity

\* An attempt that follows a failed one is under way, a room is full in the
\* working ledger on some day and a tentative placement has been undone.
C1_Witness ==
    /\ pc = "arrange" /\ n >= 1 /\ da >= 1
    /\ \E r \in AllRooms : \E d \in AllDays : beds_tempo[r][d] = 0
    /\ \E pp \in AllPatients : patients[pp].rday < patients[pp].aday

\* C2: after a successful generate_ini_solution every patient holds, on
\* every day of its stay span, one and the same room id, never 199, and the
\* room is available for the patient.
C2_StayInOneAvailableRoom ==
    Succeeded =>
        \A pp \in AllPatients : \A d \in Span(pp) :
            /\ schedule[pp][d + 1] # UNASSIGNED
            /\ schedule[pp][d + 1] \in AllRooms
            /\ schedule[pp][d + 1] = schedule[pp][patients[pp].aday + 1]
            /\ patient_room_availability[pp][schedule[pp][d + 1]]

\* A success in which a patient stays two days and avoided a room that is
\* not available for it.
C2_Witness ==
    /\ Succeeded
    /\ \E pp \in AllPatients :
        /\ Cardinality(Span(pp)) >= 2
        /\ \E r \in AllRooms : ~patient_room_availability[pp][r]

\* Patients the schedule puts in room r on day d.
Occupants(r, d) == {pp \in AllPatients : schedule[pp][d + 1] = r}

\* The 2-room scenario: horizon 3, two rooms of capacity 1 without soft
\* violation, patient 0 staying [0,2) and patient 1 staying [1,3).
ScenarioTwoRooms ==
    /\ file.num_days = 3 /\ file.num_rooms = 2
    /\ \A r \in 0 .. 1 : file.rooms[r].capacity = 1 /\ 0 \in file.rooms[r].features
    /\ file.patients[0].entrance = 0 /\ file.patients[0].leave = 2
    /\ file.patients[1].entrance = 1 /\ file.patients[1].leave = 3

\* C3: after a successful construction no room holds more patients on a day
\* than it has beds; in the 2-room scenario construction succeeds, the two
\* patients are in different rooms on day 1, total cost and lower bound are 0.
C3_CapacityRespected ==
    /\ Succeeded =>
        \A r \in AllRooms : \A d \in AllDays :
            Cardinality(Occupants(r, d)) <= rooms[r].capacity
    /\ ScenarioTwoRooms =>
        /\ Loaded => lower_bound = 0
        /\ ret # -1 => Succeeded /\ schedule[0][2] # schedule[1][2]
        /\ pc \in {"total", "done"} => total_cost = 0

\* The 2-room scenario has run to the end of main.
C3_Witness == ScenarioTwoRooms /\ pc = "done" /\ Succeeded

\* C4: once the attempt budget is exhausted without an attempt that processed
\* all days (on a horizon of more than one day every such attempt ends the
\* loop, so none was made), the neighbourhood search is not run and neither a
\* schedule nor a total cost is written.
C4_FailureIsSurfaced ==
    (Exhausted /\ num_days > 1) =>
        /\ pc \notin {"print", "cost", "total", "done"}
        /\ "schedule" \notin outFile
        /\ "Total Cost" \notin outFile

\* C5: after calculate_cost on a successfully constructed schedule the total
\* cost is at least the lower bound.
C5_CostAtLeastLowerBound ==
    (Succeeded /\ pc \in {"total", "done"}) => total_cost >= lower_bound

\* C6: at the start of every attempt every patient is UNREGISTERED, every
\* schedule entry is unassigned and beds equals the room capacities.
C6_AttemptStartsClean ==
    (pc = "day" /\ da = 0 /\ t = 1) =>
        /\ \A pp \in AllPatients : schedule[pp][0] = UNREGISTERED
        /\ \A pp \in AllPatients : \A d \in AllDays : schedule[pp][d + 1] = UNASSIGNED
        /\ \A r \in AllRooms : \A d \in AllDays : beds[r][d] = rooms[r].capacity

\* C7: when the loop over the days ends with every day processed
\* successfully, generate_ini_solution returns this attempt's index and
\* leaves its schedule and ledger in place; no further attempt is run.
C7_SuccessStops ==
    [][(pc = "check" /\ t = 1) =>
            /\ pc' = "search" /\ ret' = n /\ n < MaxAttempts
            /\ schedule' = schedule /\ beds' = beds]_vars

\* A NEEDED feature of patient pp that room r lacks.
NeededFeatureAbsent(pp, r) ==
    \E f \in Features : patient_property_level[pp][f] = "NEEDED" /\ ~room_property[r][f]

\* The department of room r gives no support to the specialism of patient pp.
SpecialismNone(pp, r) ==
    dept_specialism_level[rooms[r].department][patient_specialism_needed[pp]] = "NONE"

\* Age of patient pp outside the range the department line of room r
\* declares, a bound of 0 or an undeclared bound being no limit.
AgeOutsideDeclared(pp, r) ==
    LET dep == file.departments[rooms[r].department] IN
    \/ dep.bound = ">=" /\ dep.age # 0 /\ patients[pp].age < dep.age
    \/ dep.bound = "<=" /\ dep.age # 0 /\ patients[pp].age > dep.age

\* The same, with the upper bound 120 for a department that declares none.
AgeOutsideWithDefault(pp, r) ==
    LET dep == file.departments[rooms[r].department] IN
    \/ AgeOutsideDeclared(pp, r)
    \/ dep.bound # "<=" /\ patients[pp].age > DEFAULT_AGE_HI

\* C8 as stated: a room is unavailable exactly for a missing NEEDED feature,
\* specialism level NONE, or an age outside the declared range.
C8_AvailabilityAsStated ==
    Loaded =>
        \A pp \in AllPatients : \A r \in AllRooms :
            patient_room_availability[pp][r] =
                ~(NeededFeatureAbsent(pp, r) \/ SpecialismNone(pp, r)
                    \/ AgeOutsideDeclared(pp, r))

\* C8 amended: as stated, except that a department declaring no upper age
\* bound has the upper bound 120; gender and gender policy play no part.
C8_Availability ==
    Loaded =>
        \A pp \in AllPatients : \A r \in AllRooms :
            patient_room_availability[pp][r] =
                ~(NeededFeatureAbsent(pp, r) \/ SpecialismNone(pp, r)
                    \/ AgeOutsideWithDefault(pp, r))

\* A FEMALE patient is available for a MALE_ONLY room, and another patient is
\* unavailable for its room.
C8_Witness ==
    /\ Loaded
    /\ patients[0].gender = "FEMALE" /\ rooms[0].policy = "MALE_ONLY"
    /\ patient_room_availability[0][0]
    /\ patients[0].age = 70

\* PREFERRED features of patient pp that room r lacks.
UnmetPreferred(pp, r) ==
    {f \in Features : patient_property_level[pp][f] = "PREFERRED" /\ ~room_property[r][f]}

GenderConflict(pp, r) ==
    \/ rooms[r].policy = "MALE_ONLY" /\ patients[pp].gender = "FEMALE"
    \/ rooms[r].policy = "FEMALE_ONLY" /\ patients[pp].gender = "MALE"

\* C9: cost(p,r) is the feature weight per unmet PREFERRED feature, plus the
\* preference weight if the preferred capacity is below the room's, plus the
\* specialism weight for level PARTIAL, plus the gender weight for a MALE_ONLY
\* room with a female or a FEMALE_ONLY room with a male patient; nothing else.
C9_CostFormula ==
    Loaded =>
        \A pp \in AllPatients : \A r \in AllRooms :
            total_patient_room_cost[pp][r] =
                PREFERRED_PROPERTY_WEIGHT * Cardinality(UnmetPreferred(pp, r))
                + (IF patients[pp].preferred_cap < rooms[r].capacity
                   THEN PREFERENCE_WEIGHT ELSE 0)
                + (IF dept_specialism_level[rooms[r].department]
                                           [patient_specialism_needed[pp]] = "PARTIAL"
                   THEN SPECIALISM_WEIGHT ELSE 0)
                + (IF GenderConflict(pp, r) THEN GENDER_WEIGHT ELSE 0)

\* A female patient in a MALE_ONLY room without other soft violation costs
\* exactly GENDER_WEIGHT.
C9_Witness ==
    /\ Loaded
    /\ patients[0].gender = "FEMALE" /\ rooms[0].policy = "MALE_ONLY"
    /\ UnmetPreferred(0, 0) = {}
    /\ ~(patients[0].preferred_cap < rooms[0].capacity)
    /\ dept_specialism_level[rooms[0].department][patient_specialism_needed[0]] = "COMPLETE"
    /\ total_patient_room_cost[0][0] = GENDER_WEIGHT

\* Rooms available for patient pp.
AvailableRooms(pp) == {r \in AllRooms : patient_room_availability[pp][r]}

\* Least cost of patient pp over its available rooms.
MinAvailableCost(pp) ==
    CHOOSE c \in {total_patient_room_cost[pp][r] : r \in AvailableRooms(pp)} :
        \A r \in AvailableRooms(pp) : c <= total_patient_room_cost[pp][r]

\* Sum over the patients with an available room of the least cost times the
\* number of days of the stay span [aday, valid_dday).
RECURSIVE ClippedBound(_)
ClippedBound(pp) ==
    IF pp >= num_patients THEN 0
    ELSE (IF AvailableRooms(pp) = {} THEN 0
          ELSE MinAvailableCost(pp) * (patients[pp].valid_dday - patients[pp].aday))
         + ClippedBound(pp + 1)

\* C10: the lower bound is the sum, over the patients with an available
\* room, of the least available cost times the length of the stay span
\* [aday, valid_dday); loading is not aborted by a patient without room.
C10_LowerBoundOverSpan ==
    Loaded => lower_bound = ClippedBound(0) /\ pc # "load"

\* C11: after load, after construction and after the search, every patient's
\* admission day, in patients and in assignments, is at most its max_aday,
\* also when the max admission day is '*' and when the discharge day lies
\* beyond the horizon.
C11_AdmissionWithinMaxAday ==
    Loaded =>
        \A pp \in AllPatients :
            /\ patients[pp].aday <= patients[pp].max_aday
            /\ assignments[pp].aday <= patients[pp].max_aday

\* Patient pp has a room on its admission day.
Placed(pp) == schedule[pp][patients[pp].aday + 1] \in AllRooms

C12_ProbePlaced ==
    [][calculate_cost_again =>
        \A pp \in AllPatients : Placed(pp) =>
            /\ assignments'[pp].ra = assignments[pp].ra
            /\ assignments'[pp].cost = assignments[pp].cost]_vars

\* Rooms available to patient pp with a free bed in the working ledger on
\* every day of its stay span.
GoodRooms(pp) ==
    {r \in AllRooms :
        /\ patient_room_availability[pp][r]
        /\ \A i \in Span(pp) : beds_tempo[r][i] >= 1}

\* arrange_patients is about to search a room for patient p on day da.
AboutToPlace == pc = "arrange" /\ p < num_patients /\ NeedsRoom(p, da)

\* C14: the placement of p on day da fails, and the attempt with it, exactly
\* when no room is available to p with a free bed on every day of the span;
\* otherwise p is placed in such a room, the working ledger loses exactly one
\* bed of that room on each day of the span and nothing else, whatever room
\* is drawn first.
C14_PlacementPolicy ==
    [][AboutToPlace =>
        /\ \A ran \in AllRooms :
              IF GoodRooms(p) = {} THEN SearchRoom(p, ran, num_rooms) = NoRoom
              ELSE SearchRoom(p, ran, num_rooms) \in GoodRooms(p)
        /\ IF GoodRooms(p) = {}
           THEN /\ t' = 0
                /\ beds_tempo' = beds_tempo
                /\ \A i \in 1 .. num_days : schedule'[p][i] = schedule[p][i]
           ELSE /\ t' = 1
                /\ p' = p + 1
                /\ \E r \in GoodRooms(p) :
                     /\ \A i \in Span(p) : schedule'[p][i + 1] = r
                     /\ \A rr \in AllRooms, d \in AllDays :
                          beds_tempo'[rr][d] =
                            IF rr = r /\ d \in Span(p) THEN beds_tempo[rr][d] - 1
                            ELSE beds_tempo[rr][d]]_vars

\* Patient 1 has just been placed in room 1, the only room available to it,
\* over a stay of two days, and room 1 has no bed left on those days.
C14_Witness ==
    /\ pc = "arrange" /\ p = 2 /\ num_rooms = 2
    /\ NeedsRoom(1, da)
    /\ ~patient_room_availability[1][0]
    /\ patients[1].valid_dday - patients[1].aday = 2
    /\ \A i \in Span(1) :
          schedule[1][i + 1] = 1 /\ beds[1][i] = 1 /\ beds_tempo[1][i] = 0

\* cost(pp, r) without a capacity-preference term.
CostWithoutPreference(pp, r) ==
    PREFERRED_PROPERTY_WEIGHT * Cardinality(UnmetPreferred(pp, r))
    + (IF dept_specialism_level[rooms[r].department]
                               [patient_specialism_needed[pp]] = "PARTIAL"
       THEN SPECIALISM_WEIGHT ELSE 0)
    + (IF GenderConflict(pp, r) THEN GENDER_WEIGHT ELSE 0)

\* C15: a patient whose preferred capacity is '*' pays no PREFERENCE_WEIGHT
\* for any room, whatever the room's capacity.
C15_StarPaysNoPreference ==
    Loaded =>
        \A pp \in AllPatients : file.patients[pp].preferred_cap[1] = "*" =>
            \A r \in AllRooms :
                total_patient_room_cost[pp][r] = CostWithoutPreference(pp, r)

\* generate_ini_solution has returned.
Returned == ret # -1

\* C16: generate_ini_solution terminates; it starts at most MaxAttempts
\* attempts, an attempt processes at most num_days days, the room search for
\* one patient examines at most num_rooms + 1 candidates, and the value
\* returned is MaxAttempts exactly when no attempt was recognised as
\* successful.
C16_Terminates ==
    /\ <>Returned
    /\ [](Loaded =>
            /\ n <= MaxAttempts
            /\ (pc \in {"day", "arrange"} => n < MaxAttempts /\ da <= num_days)
            /\ (pc = "arrange" => da < num_days)
            /\ (AboutToPlace =>
                    \A ran \in AllRooms : Examined(p, ran, num_rooms) <= num_rooms + 1)
            /\ (Returned => (ret = MaxAttempts <=> "success" \notin outFile)))

\* The budget is exhausted after a room search that examined num_rooms + 1
\* candidates of two rooms on the last day of a horizon of two days.
C16_Witness ==
    /\ Returned /\ ret = MaxAttempts /\ "Failed" \in outFile
    /\ num_rooms = 2 /\ num_days = 2

\* C17: when generate_ini_solution has ended with a success, the ledger
\* agrees with the schedule: beds[r][d] is the capacity of r minus the number
\* of patients the schedule has in r on day d, however many attempts failed
\* before.
C17_LedgerAgreesWithSchedule ==
    Succeeded =>
        \A r \in AllRooms, d \in AllDays :
            beds[r][d] = rooms[r].capacity - Cardinality(Occupants(r, d))

\* The same for a success of the first attempt.
C17_ProbeFirstAttempt ==
    (Succeeded /\ ret = 0) =>
        \A r \in AllRooms, d \in AllDays :
            beds[r][d] = rooms[r].capacity - Cardinality(Occupants(r, d))

\* Patient pp is registered and not yet admitted on day d.
AwaitsAdmission(pp, d) == patients[pp].rday <= d /\ d < patients[pp].aday

\* Patients that the schedule has in room r on day d of their stay span and
\* that satisfy Q on the day da being processed.
HeldBy(r, d, Q(_)) ==
    {pp \in AllPatients : Q(pp) /\ d \in Span(pp) /\ schedule[pp][d + 1] = r}

AdmittedToday(pp) == patients[pp].aday = da

PlacedToday(pp) == AdmittedToday(pp) \/ AwaitsAdmission(pp, da)

\* C18: when a day is committed, the working ledger holds a bed-day for
\* every patient placed that day, those awaiting admission included, and the
\* ledger that is committed holds bed-days only for the patients admitted that
\* day: every decrement made for a patient registered before its admission
\* day has been undone.
C18_TentativeUntilAdmission ==
    [][CommitDay =>
        \A r \in AllRooms, d \in AllDays :
            /\ beds_tempo[r][d] = beds[r][d] - Cardinality(HeldBy(r, d, PlacedToday))
            /\ beds'[r][d] = beds[r][d] - Cardinality(HeldBy(r, d, AdmittedToday))]_vars

\* Day 0 of the first attempt has been committed with a patient registered
\* on day 0 and admitted later: the schedule has it in a room on its
\* admission day, and that room has all its beds on that day.
C18_Witness ==
    /\ n = 0 /\ pc = "day" /\ da = 1 /\ t = 1
    /\ \E pp \in AllPatients : \E r \in AllRooms :
         /\ AwaitsAdmission(pp, 0)
         /\ schedule[pp][patients[pp].aday + 1] = r
         /\ beds[r][patients[pp].aday] = rooms[r].capacity

====
